---- MODULE Spec2Model ----
(***************************************************************************)
(* john-migrator: the migration engine behind the command line.            *)
(*                                                                         *)
(* cli.py and migration_manager.py are modelled from their source, the two *)
(* generators of orm_generator.py and model_to_migration_generator.py by   *)
(* what they come to for the manager.  The                                 *)
(* runner (migration_runner.py), the applied-state store                   *)
(* (database_manager.py) and the generator (migration_generator.py) are    *)
(* imported by migration_manager.py but their source is not part of the    *)
(* tree; they are modelled from sections 3, 4 and 5 of the specification.  *)
(***************************************************************************)
EXTENDS Integers, Sequences, FiniteSets, TLC

(* Bounds of the model. *)
MaxUnits == 3
MaxClock == 3
MaxOps == 3

(* Migration units are numbered by the chronological rank of their id; the *)
(* command line names them by file name.                                   *)
UnitNames ==
  << "m_001_create_users", "m_002_add_email", "m_003_add_index",
     "m_004_add_orders", "m_005_add_items" >>

Units == 1..MaxUnits

NoBatch == 0

VARIABLES
  catalog,   \* ids of the migration units present in the migration folder
  ledger,    \* the ledger table: a sequence of AppliedRecord rows
  schema,    \* per unit, how many times its forward effect is in the schema
  clock,     \* the database's time, the source of applied_at
  hist,      \* the last two invocations, older first
  procs      \* concurrent up invocations: each one's position and transaction

vars == << catalog, ledger, schema, clock, hist, procs >>

(***************************************************************************)
(* Helpers                                                                 *)
(***************************************************************************)
SetMax(S) == CHOOSE x \in S : \A y \in S : y <= x

RECURSIVE SortedSeq(_)
SortedSeq(S) ==
  IF S = {} THEN << >>
  ELSE LET m == CHOOSE x \in S : \A y \in S : x <= y
       IN << m >> \o SortedSeq(S \ {m})

Range(s) == { s[i] : i \in 1..Len(s) }

unit_id(name) ==
  IF \E i \in 1..Len(UnitNames) : UnitNames[i] = name
  THEN CHOOSE i \in 1..Len(UnitNames) : UnitNames[i] = name
  ELSE 0

(***************************************************************************)
(* Applied-State Store (specification 4.2).  The ledger table is a         *)
(* sequence of rows (migration_id, batch, applied_at) in insertion order.  *)
(***************************************************************************)
Rows(led) == { led[i] : i \in 1..Len(led) }

applied_ids(led) == { r.migration_id : r \in Rows(led) }

next_batch(led) ==
  IF led = << >> THEN 1 ELSE SetMax({ r.batch : r \in Rows(led) }) + 1

\* Faulty variant: a plain insert, with no uniqueness constraint on migration_id.
record_applied_Unchecked(led, id, batch, at) ==
  [ ok |-> TRUE,
    ledger |-> Append(led, [ migration_id |-> id, batch |-> batch,
                             applied_at |-> at ]) ]

\* A uniqueness-constrained insert on migration_id: a second row for the
\* same id is refused (the caller turns the refusal into ConflictError).
record_applied(led, id, batch, at) ==
  IF id \in applied_ids(led)
  THEN [ ok |-> FALSE, ledger |-> led ]
  ELSE [ ok |-> TRUE,
         ledger |-> Append(led, [ migration_id |-> id, batch |-> batch,
                                  applied_at |-> at ]) ]

unrecord(led, id) == SelectSeq(led, LAMBDA r : r.migration_id # id)

RECURSIVE DescByAppliedAt(_)
DescByAppliedAt(S) ==
  IF S = {} THEN << >>
  ELSE LET r == CHOOSE x \in S : \A y \in S : y.applied_at <= x.applied_at
       IN << r.migration_id >> \o DescByAppliedAt(S \ {r})

last_batch_ids(led) ==
  IF led = << >> THEN << >>
  ELSE LET top == SetMax({ r.batch : r \in Rows(led) })
       IN DescByAppliedAt({ r \in Rows(led) : r.batch = top })

batch_of(led, id) == (CHOOSE r \in Rows(led) : r.migration_id = id).batch

(***************************************************************************)
(* Migration Catalog (specification 4.1) and the manager's queries         *)
(***************************************************************************)
get_all_migrations(cat) == SortedSeq(cat)

get_applied_migrations(led) == applied_ids(led)

\* Faulty variant: the applied units are not filtered out.
get_pending_migrations_NoFilter(cat, led) == get_all_migrations(cat)

get_pending_migrations(cat, led) ==
  LET applied == get_applied_migrations(led)
      all_migrations == get_all_migrations(cat)
  IN SelectSeq(all_migrations, LAMBDA m : m \notin applied)

(***************************************************************************)
(* Migration Runner (specification 4.3).  db is the target database:       *)
(* [ledger, schema, clock].  bad is the set of units whose statement the   *)
(* database refuses during this invocation.  A result carries the database *)
(* afterwards, the units attempted in order with each one's outcome, and   *)
(* the error raised, if any, with the unit it was raised for.              *)
(***************************************************************************)
Attempt(dir, id, outcome) == [ dir |-> dir, id |-> id, outcome |-> outcome ]

Result(db, attempted, err, failed, report) ==
  [ db |-> db, attempted |-> attempted, err |-> err, failed |-> failed,
    report |-> report, rows |-> << >> ]

\* One unit's transaction: forward, then record_applied, then commit; a
\* failure of either rolls the transaction back and leaves db as it was.
apply_unit(db, id, batch, bad) ==
  IF id \in bad
  THEN [ db |-> db, err |-> "DatabaseError",
         att |-> Attempt("up", id, "failed") ]
  ELSE LET ins == record_applied(db.ledger, id, batch, db.clock + 1)
       IN IF ~ins.ok
          THEN [ db |-> db, err |-> "ConflictError",
                 att |-> Attempt("up", id, "conflict") ]
          ELSE [ db |-> [ ledger |-> ins.ledger,
                          schema |-> [ db.schema EXCEPT ![id] = @ + 1 ],
                          clock |-> db.clock + 1 ],
                 err |-> "none",
                 att |-> Attempt("up", id, "committed") ]

\* One unit's transaction: reverse, then unrecord, then commit.
revert_unit(db, id, bad) ==
  IF id \in bad
  THEN [ db |-> db, err |-> "DatabaseError",
         att |-> Attempt("down", id, "failed") ]
  ELSE [ db |-> [ ledger |-> unrecord(db.ledger, id),
                  schema |-> [ db.schema EXCEPT ![id] = @ - 1 ],
                  clock |-> db.clock ],
         err |-> "none",
         att |-> Attempt("down", id, "committed") ]

RECURSIVE apply_each(_, _, _, _, _)
apply_each(pending, batch, db, bad, done) ==
  IF pending = << >>
  THEN Result(db, done, "none", 0, "applied")
  ELSE LET t == apply_unit(db, Head(pending), batch, bad)
       IN IF t.err # "none"
          THEN Result(t.db, Append(done, t.att), t.err, Head(pending),
                      "failed")
          ELSE apply_each(Tail(pending), batch, t.db, bad,
                          Append(done, t.att))

RECURSIVE revert_each(_, _, _, _)
revert_each(ids, db, bad, done) ==
  IF ids = << >>
  THEN Result(db, done, "none", 0, "rolled back")
  ELSE LET t == revert_unit(db, Head(ids), bad)
       IN IF t.err # "none"
          THEN Result(t.db, Append(done, t.att), t.err, Head(ids), "failed")
          ELSE revert_each(Tail(ids), t.db, bad, Append(done, t.att))

run_pending_migrations(cat, db, bad) ==
  LET pending == get_pending_migrations(cat, db.ledger)
      batch == next_batch(db.ledger)
  IN apply_each(pending, batch, db, bad, << >>)

rollback_last_batch(cat, db, bad) ==
  LET ids == last_batch_ids(db.ledger)
  IN IF ids = << >>
     THEN Result(db, << >>, "none", 0, "nothing to roll back")
     ELSE revert_each(ids, db, bad, << >>)

run_migration(cat, db, migration_name, action, bad) ==
  LET id == unit_id(migration_name) IN
  IF id \notin cat
  THEN Result(db, << >>, "NotFoundError", id, "failed")
  ELSE IF action = "down"
  THEN IF id \notin applied_ids(db.ledger)
       THEN Result(db, << >>, "NotAppliedError", id, "failed")
       ELSE LET t == revert_unit(db, id, bad)
            IN Result(t.db, << t.att >>, t.err,
                      IF t.err = "none" THEN 0 ELSE id,
                      IF t.err = "none" THEN "rolled back" ELSE "failed")
  ELSE IF id \in applied_ids(db.ledger)
       THEN Result(db, << >>, "none", 0, "already applied")
       ELSE LET t == apply_unit(db, id, next_batch(db.ledger), bad)
            IN Result(t.db, << t.att >>, t.err,
                      IF t.err = "none" THEN 0 ELSE id,
                      IF t.err = "none" THEN "applied" ELSE "failed")

(***************************************************************************)
(* Status Reporter (specification 4.4)                                     *)
(***************************************************************************)
StatusRow(led, id) ==
  IF id \in applied_ids(led)
  THEN [ id |-> id, state |-> "Applied", batch |-> batch_of(led, id) ]
  ELSE [ id |-> id, state |-> "Pending", batch |-> NoBatch ]

get_migration_status(cat, db) ==
  LET all == get_all_migrations(cat)
  IN [ Result(db, << >>, "none", 0, "status")
       EXCEPT !.rows = [ i \in 1..Len(all) |-> StatusRow(db.ledger, all[i]) ] ]

(***************************************************************************)
(* Migration generator (out of the engine's scope): a created unit's id    *)
(* carries the current timestamp, so it sorts after every existing unit.   *)
(***************************************************************************)
generator_create(cat) == cat \cup { Cardinality(cat) + 1 }

(***************************************************************************)
(* MigrationManager (migration_manager.py)                                 *)
(***************************************************************************)
create_migration(cat, migration_name, columns) == generator_create(cat)

create_alter_migration(cat, table_name, operations) == generator_create(cat)

\* Faulty variant: catch, log and continue with the next pending unit.
RECURSIVE apply_each_KeepsGoing(_, _, _, _, _, _)
apply_each_KeepsGoing(pending, batch, db, bad, done, failed) ==
  IF pending = << >>
  THEN Result(db, done, IF failed = 0 THEN "none" ELSE "DatabaseError",
              failed, IF failed = 0 THEN "applied" ELSE "failed")
  ELSE LET t == apply_unit(db, Head(pending), batch, bad)
       IN apply_each_KeepsGoing(Tail(pending), batch, t.db, bad,
            Append(done, t.att),
            IF t.err # "none" /\ failed = 0 THEN Head(pending) ELSE failed)

run_migrations_KeepsGoing(cat, db, bad) ==
  apply_each_KeepsGoing(get_pending_migrations(cat, db.ledger),
                        next_batch(db.ledger), db, bad, << >>, 0)

\* Faulty variant: the units join the highest batch there is.
run_migrations_JoinsLastBatch(cat, db, bad) ==
  apply_each(get_pending_migrations(cat, db.ledger),
             IF db.ledger = << >> THEN 1 ELSE next_batch(db.ledger) - 1,
             db, bad, << >>)

\* Faulty variant: the batch is allocated again for every unit.
RECURSIVE apply_each_OwnBatch(_, _, _, _)
apply_each_OwnBatch(pending, db, bad, done) ==
  IF pending = << >>
  THEN Result(db, done, "none", 0, "applied")
  ELSE LET t == apply_unit(db, Head(pending), next_batch(db.ledger), bad)
       IN IF t.err # "none"
          THEN Result(t.db, Append(done, t.att), t.err, Head(pending),
                      "failed")
          ELSE apply_each_OwnBatch(Tail(pending), t.db, bad,
                                   Append(done, t.att))

run_migrations_BatchPerUnit(cat, db, bad) ==
  apply_each_OwnBatch(get_pending_migrations(cat, db.ledger), db, bad, << >>)

run_migrations(cat, db, bad) == run_pending_migrations(cat, db, bad)

\* Faulty variant: only the latest migration is rolled back.
rollback_migrations_LatestOnly(cat, db, bad) ==
  LET ids == last_batch_ids(db.ledger)
  IN IF ids = << >>
     THEN Result(db, << >>, "none", 0, "nothing to roll back")
     ELSE revert_each(<< Head(ids) >>, db, bad, << >>)

\* Faulty variant: every applied migration is rolled back, not the last batch only.
rollback_migrations_Everything(cat, db, bad) ==
  LET ids == DescByAppliedAt(Rows(db.ledger))
  IN IF ids = << >>
     THEN Result(db, << >>, "none", 0, "nothing to roll back")
     ELSE revert_each(ids, db, bad, << >>)

\* Faulty variant: an empty ledger is an error.
rollback_migrations_RaisesOnEmpty(cat, db, bad) ==
  IF db.ledger = << >>
  THEN Result(db, << >>, "DatabaseError", 0, "failed")
  ELSE rollback_last_batch(cat, db, bad)

\* Faulty variant: the whole batch is one transaction, undone as a whole on failure.
rollback_migrations_OneTransaction(cat, db, bad) ==
  LET r == rollback_last_batch(cat, db, bad)
  IN IF r.err = "none" THEN r ELSE [ r EXCEPT !.db = db ]

rollback_migrations(cat, db, bad) == rollback_last_batch(cat, db, bad)

\* Faulty variant: the named unit's statements are executed without looking
\* at the catalog or at the ledger first.
run_specific_migration_Unguarded(cat, db, migration_name, action, bad) ==
  LET id == unit_id(migration_name)
      t == IF action = "down" THEN revert_unit(db, id, bad)
           ELSE apply_unit(db, id, next_batch(db.ledger), bad)
  IN Result(t.db, << t.att >>, t.err, IF t.err = "none" THEN 0 ELSE id,
            IF t.err # "none" THEN "failed"
            ELSE IF action = "down" THEN "rolled back" ELSE "applied")

run_specific_migration(cat, db, migration_name, action, bad) ==
  run_migration(cat, db, migration_name, action, bad)

\* Faulty variant: only the units with a ledger record are listed.
get_status_AppliedOnly(cat, db) ==
  LET r == get_migration_status(cat, db)
  IN [ r EXCEPT !.rows = SelectSeq(r.rows, LAMBDA row : row.state = "Applied") ]

get_status(cat, db) == get_migration_status(cat, db)

(***************************************************************************)
(* ORM synchronisation and migrations from models.  What the two           *)
(* generators find on disk is an input of the invocation: env.orm is what  *)
(* syncing the ORM models comes to, env.models what loading the models     *)
(* and generating their migrations comes to.                               *)
(***************************************************************************)
ConfigOutcomes == { "absent", "overwrite", "keep", "unwritable" }

OrmOutcomes == { "disabled", "updated", "none", "raises" }

ModelOutcomes == { "generated", "none", "raises" }

\* Nothing to synchronise and no model to generate from.
Bare == [ config |-> "absent", orm |-> "none", models |-> "none" ]

\* A manager operation that returns normally after printing report.
Said(db, report) == Result(db, << >>, "none", 0, report)

\* The configuration file is in the way and the operator keeps it, or it
\* is written; a write the file system refuses raises.
init_project(db, env) ==
  IF env.config = "keep"
  THEN Said(db, "Configuration file creation cancelled.")
  ELSE IF env.config = "unwritable"
  THEN Result(db, << >>, "OSError", 0, "failed")
  ELSE Said(db, "Configuration file created successfully!")

\* The number of model files ORMGenerator.sync_all_models updated.
sync_all_models(env) == IF env.orm = "updated" THEN 1 ELSE 0

sync_orm_models(db, env) ==
  IF env.orm = "disabled"
  THEN Said(db, "ORM model generation is disabled.")
  ELSE IF env.orm = "raises"
  THEN Said(db, "Error syncing ORM models")
  ELSE IF sync_all_models(env) > 0
  THEN Said(db, "Synced ORM models")
  ELSE Said(db, "No ORM models to sync.")

\* ModelToMigrationGenerator.generate_migration_from_models: the catalog
\* with the generated migrations; an exception is caught and reported
\* there, and nothing is generated.
generate_migration_from_models(cat, models_path, model_names, env) ==
  IF env.models = "generated" THEN generator_create(cat) ELSE cat

generate_migrations_from_models(cat, db, models_path, model_names, env) ==
  LET generated_migrations ==
        generate_migration_from_models(cat, models_path, model_names, env)
  IN [ cat |-> generated_migrations,
       run |-> IF generated_migrations # cat
               THEN Said(db, "Generated migrations from models")
               ELSE Said(db, "No migrations were generated.") ]

(***************************************************************************)
(* Command line (cli.py).  argv[1] is the program name, so sys.argv[k] is  *)
(* argv[k + 1].  The outcome of main is the exit code, the catalog and the *)
(* runner's result, the manager operations it called with their            *)
(* arguments, and the warnings it printed.                                 *)
(***************************************************************************)
Quiet(db) == Said(db, "")

Call(op, name, list) == [ op |-> op, name |-> name, list |-> list ]

Outcome(code, cat, run, calls) ==
  [ exit |-> code, cat |-> cat, run |-> run, calls |-> calls,
    warnings |-> << >> ]

\* A manager call inside main's try block: an exception it raises is caught,
\* printed, and turned into exit code 1; otherwise main falls off its end.
Called(cat, run, call) ==
  Outcome(IF run.err = "none" THEN 0 ELSE 1, cat, run, << call >>)

\* Faulty variant: an operation keyword is emitted alone and the token after
\* it is looked at again.
RECURSIVE format_operations_OneByOne(_, _, _, _)
format_operations_OneByOne(operations, i, formatted, warnings) ==
  IF ~(i < Len(operations))
  THEN [ formatted |-> formatted, warnings |-> warnings ]
  ELSE IF operations[i + 1] \in { "add", "drop", "modify", "rename" }
  THEN IF i + 1 < Len(operations)
       THEN format_operations_OneByOne(operations, i + 1,
              Append(formatted, operations[i + 1] \o " " \o operations[i + 2]),
              warnings)
       ELSE format_operations_OneByOne(operations, i + 1, formatted,
              Append(warnings, "Incomplete operation: " \o operations[i + 1]))
  ELSE format_operations_OneByOne(operations, i + 1, formatted,
         Append(warnings, "Unknown operation: " \o operations[i + 1]))

\* The while loop of the alter command: i is the loop index (0-based, as in
\* the source), formatted the list built so far, warnings the lines printed.
RECURSIVE format_operations(_, _, _, _)
format_operations(operations, i, formatted, warnings) ==
  IF ~(i < Len(operations))
  THEN [ formatted |-> formatted, warnings |-> warnings ]
  ELSE IF operations[i + 1] \in { "add", "drop", "modify", "rename" }
  THEN IF i + 1 < Len(operations)
       THEN format_operations(operations, i + 2,
              Append(formatted, operations[i + 1] \o " " \o operations[i + 2]),
              warnings)
       ELSE format_operations(operations, i + 1, formatted,
              Append(warnings, "Incomplete operation: " \o operations[i + 1]))
  ELSE format_operations(operations, i + 1, formatted,
         Append(warnings, "Unknown operation: " \o operations[i + 1]))

main(argv, cat, db, bad, env) ==
  IF Len(argv) < 2 THEN Outcome(1, cat, Quiet(db), << >>)
  ELSE LET command == argv[2] IN
    CASE command = "init" ->
           Called(cat, init_project(db, env), Call("init_project", "", << >>))
      [] command = "create" ->
           IF Len(argv) < 3
           THEN Outcome(1, cat,
                  Said(db, "Missing migration name for 'create' command."),
                  << >>)
           ELSE LET migration_name == argv[3]
                    columns == SubSeq(argv, 4, Len(argv))
                IN Outcome(0, create_migration(cat, migration_name, columns),
                     Quiet(db),
                     << Call("create_migration", migration_name, columns) >>)
      [] command = "alter" ->
           IF Len(argv) < 4
           THEN Outcome(1, cat,
                  Said(db, "Missing arguments for 'alter' command."), << >>)
           ELSE LET table_name == argv[3]
                    operations == SubSeq(argv, 4, Len(argv))
                    f == format_operations(operations, 0, << >>, << >>)
                IN [ Outcome(0,
                       create_alter_migration(cat, table_name, f.formatted),
                       Quiet(db),
                       << Call("create_alter_migration", table_name,
                               f.formatted) >>)
                     EXCEPT !.warnings = f.warnings ]
      [] command = "up" ->
           Called(cat, run_migrations(cat, db, bad),
                  Call("run_migrations", "", << >>))
      [] command = "down" ->
           Called(cat, rollback_migrations(cat, db, bad),
                  Call("rollback_migrations", "", << >>))
      [] command = "status" ->
           Called(cat, get_status(cat, db), Call("get_status", "", << >>))
      [] command = "run" ->
           IF Len(argv) < 4
           THEN Outcome(1, cat,
                  Said(db, "Missing arguments for 'run' command."), << >>)
           ELSE IF argv[4] \notin { "up", "down" }
           THEN Outcome(1, cat,
                  Said(db, "Invalid action! Use 'up' or 'down'."), << >>)
           ELSE Outcome(0, cat, Quiet(db), << >>)
      [] command = "sync" ->
           Called(cat, sync_orm_models(db, env),
                  Call("sync_orm_models", "", << >>))
      [] command = "from-model" ->
           IF Len(argv) < 3
           THEN Outcome(1, cat,
                  Said(db, "Missing models path for 'from-model' command."),
                  << >>)
           ELSE LET models_path == argv[3]
                    model_names == SubSeq(argv, 4, Len(argv))
                    g == generate_migrations_from_models(cat, db, models_path,
                                                         model_names, env)
                IN Called(g.cat, g.run,
                          Call("generate_migrations_from_models", models_path,
                               model_names))
      [] OTHER -> Outcome(1, cat, Said(db, "Unknown command"), << >>)

(***************************************************************************)
(* The state machine: one operator invocation per step.                    *)
(***************************************************************************)
Prog == "john-migrator"

DB == [ ledger |-> ledger, schema |-> schema, clock |-> clock ]

\* What an invocation leaves in the history: the command, how it ended, the
\* catalog and ledger before and after it, and whether it changed the schema.
Entry(cmd, args, o) ==
  [ cmd |-> cmd, args |-> args, exit |-> o.exit, err |-> o.run.err, failed |-> o.run.failed,
    attempted |-> o.run.attempted, report |-> o.run.report,
    rows |-> o.run.rows, calls |-> o.calls, warnings |-> o.warnings,
    catBefore |-> catalog, before |-> ledger,
    catAfter |-> o.cat, after |-> o.run.db.ledger,
    schemaChanged |-> o.run.db.schema # schema ]

\* Of the older invocation only what it did to the ledger is kept; the
\* catalog and ledger it left are those the newer one started from.
Older(e) ==
  [ cmd |-> e.cmd, exit |-> e.exit, err |-> e.err, failed |-> e.failed,
    attempted |-> e.attempted, catBefore |-> e.catBefore,
    before |-> e.before ]

Remember(h, e) ==
  IF h = << >> THEN << e >> ELSE << Older(h[Len(h)]), e >>

\* The process has exited: what it did to the migration folder and to the
\* database is what the next invocation finds.
Settle(o) ==
  /\ o.cat \subseteq Units
  /\ o.run.db.clock <= MaxClock
  /\ catalog' = o.cat
  /\ ledger' = o.run.db.ledger
  /\ schema' = o.run.db.schema
  /\ clock' = o.run.db.clock
  /\ UNCHANGED procs

Finish(cmd, args, o) ==
  /\ Settle(o)
  /\ \E e \in { Entry(cmd, args, o) } : hist' = Remember(hist, e)

Invoke(argv, bad) ==
  \E o \in { main(argv, catalog, DB, bad, Bare) } :
    Finish(argv[2], SubSeq(argv, 3, Len(argv)), o)

\* An invocation that has not started.
Idle ==
  [ pc |-> "idle", pending |-> << >>, batch |-> NoBatch, staged |-> << >>,
    inserted |-> {}, committed |-> {}, err |-> "none", failed |-> 0 ]

Racers == { "first", "second" }

Init ==
  /\ catalog = {}
  /\ ledger = << >>
  /\ schema = [ u \in Units |-> 0 ]
  /\ clock = 0
  /\ hist = << >>
  /\ procs = [ p \in Racers |-> Idle ]

\* The statements the database refuses during one invocation: none, or
\* those of one of the units the invocation is about.
Faults(ids) == { {} } \cup { {u} : u \in ids }

Applied == applied_ids(ledger)

Create == Invoke(<< Prog, "create", "users" >>, {})

Up == \E bad \in Faults(catalog \ Applied) : Invoke(<< Prog, "up" >>, bad)

Down == \E bad \in Faults(Applied) : Invoke(<< Prog, "down" >>, bad)

Status == Invoke(<< Prog, "status" >>, {})

\* main does not look at the name given to run.
Run ==
  \E action \in { "up", "down" } :
    Invoke(<< Prog, "run", UnitNames[1], action >>, {})

\* A program that uses the package calls the manager directly.
RunSpecific ==
  \E id \in Units, action \in { "up", "down" } :
    \E bad \in Faults({id} \cap (IF action = "up" THEN catalog \ Applied
                                                  ELSE Applied)) :
      \E r \in { run_specific_migration(catalog, DB, UnitNames[id], action,
                                          bad) } :
        Finish("run_specific_migration", << UnitNames[id], action >>,
               Called(catalog, r,
                      Call("run_specific_migration", UnitNames[id],
                           << action >>)))

Next == Create \/ Up \/ Down \/ Status \/ Run \/ RunSpecific

Spec == Init /\ [][Next]_vars

(***************************************************************************)
(* The command line as a whole: every command main handles, with too few   *)
(* and with wrong arguments, and with the ORM and model generators         *)
(* succeeding and failing.  Only the last invocation is remembered.        *)
(***************************************************************************)
Command(argv, bad, env) ==
  \E o \in { main(argv, catalog, DB, bad, env) } :
    /\ Settle(o)
    /\ hist' = << Entry(IF Len(argv) < 2 THEN "" ELSE argv[2],
                        SubSeq(argv, 3, Len(argv)), o) >>

InitCli == Init

CliHelp ==
  \E argv \in { << Prog >>, << Prog, "migrate" >> } : Command(argv, {}, Bare)

CliInit ==
  \E config \in ConfigOutcomes :
    Command(<< Prog, "init" >>, {}, [ Bare EXCEPT !.config = config ])

CliCreate ==
  \E argv \in { << Prog, "create" >>, << Prog, "create", "users" >>,
                << Prog, "create", "users", "age:integer" >> } :
    Command(argv, {}, Bare)

CliAlter ==
  \E argv \in { << Prog, "alter" >>, << Prog, "alter", "users" >>,
                << Prog, "alter", "users", "add", "age:integer" >> } :
    Command(argv, {}, Bare)

CliUp ==
  \E bad \in Faults(catalog \ Applied) : Command(<< Prog, "up" >>, bad, Bare)

CliDown ==
  \E bad \in Faults(Applied) : Command(<< Prog, "down" >>, bad, Bare)

CliStatus == Command(<< Prog, "status" >>, {}, Bare)

CliRun ==
  \E argv \in { << Prog, "run" >>, << Prog, "run", UnitNames[1] >>,
                << Prog, "run", UnitNames[1], "sideways" >>,
                << Prog, "run", UnitNames[1], "up" >>,
                << Prog, "run", UnitNames[1], "down" >> } :
    Command(argv, {}, Bare)

CliSync ==
  \E orm \in OrmOutcomes :
    Command(<< Prog, "sync" >>, {}, [ Bare EXCEPT !.orm = orm ])

CliFromModel ==
  \/ Command(<< Prog, "from-model" >>, {}, Bare)
  \/ \E models \in ModelOutcomes :
       Command(<< Prog, "from-model", "./models" >>, {},
               [ Bare EXCEPT !.models = models ])

NextCli ==
  \/ CliHelp
  \/ CliInit
  \/ CliCreate
  \/ CliAlter
  \/ CliUp
  \/ CliDown
  \/ CliStatus
  \/ CliRun
  \/ CliSync
  \/ CliFromModel

SpecCli == InitCli /\ [][NextCli]_vars

(***************************************************************************)
(* The alter command on its own: any list of operation tokens after the    *)
(* table name, the empty one included.                                     *)
(***************************************************************************)
Keywords == { "add", "drop", "modify", "rename" }

Tokens == Keywords \cup { "age:integer", "frobnicate" }

OpLists == UNION { [ 1..n -> Tokens ] : n \in 0..MaxOps }

\* The command line the operator has typed, in a fresh project.
InitAlter ==
  \E operations \in OpLists :
    /\ catalog = {}
    /\ ledger = << >>
    /\ schema = [ u \in Units |-> 0 ]
    /\ clock = 0
    /\ hist = << [ cmd |-> "sys.argv",
                   args |-> << Prog, "alter", "users" >> \o operations ] >>
    /\ procs = [ p \in Racers |-> Idle ]

Alter ==
  /\ hist[1].cmd = "sys.argv"
  /\ Command(hist[1].args, {}, Bare)

NextAlter == Alter

SpecAlter == InitAlter /\ [][NextAlter]_vars

(***************************************************************************)
(* The pending computation on its own: any migration folder, enumerated by *)
(* the file system in any order, against any set of applied units (a unit  *)
(* may have been applied and its file removed since).                      *)
(***************************************************************************)
Enumerations(cat) ==
  { files \in [ 1..Cardinality(cat) -> cat ] : Range(files) = cat }

InitPending ==
  \E cat \in SUBSET Units, applied \in SUBSET Units :
    /\ catalog = cat
    /\ LET db0 == [ ledger |-> << >>, schema |-> [ u \in Units |-> 0 ],
                    clock |-> 0 ]
           r == apply_each(SortedSeq(applied), 1, db0, {}, << >>)
       IN /\ ledger = r.db.ledger
          /\ schema = r.db.schema
          /\ clock = r.db.clock
    /\ hist = << >>
    /\ procs = [ p \in Racers |-> Idle ]

Pending ==
  \E files \in Enumerations(catalog) :
    /\ hist' = << [ cmd |-> "get_pending_migrations", files |-> files,
                    result |-> get_pending_migrations(Range(files), ledger) ] >>
    /\ UNCHANGED << catalog, ledger, schema, clock, procs >>

NextPending == Pending

SpecPending == InitPending /\ [][NextPending]_vars

(***************************************************************************)
(* Two up invocations against one database (specification 5).  Each runs   *)
(* run_pending_migrations step by step: read the applied ids, allocate the *)
(* batch, then per pending unit open a transaction, execute forward,       *)
(* insert the ledger row and commit.  A transaction's forward effect and   *)
(* row become visible to the other invocation at its commit.  The insert   *)
(* of a row whose migration_id another open transaction has inserted       *)
(* waits for that transaction to end, as a unique index makes it.          *)
(***************************************************************************)
InitRace ==
  \E n \in 1..MaxUnits, j \in 0..MaxUnits :
    /\ j < n
    /\ catalog = 1..n
    /\ LET db0 == [ ledger |-> << >>, schema |-> [ u \in Units |-> 0 ],
                    clock |-> 0 ]
           r == apply_each(SortedSeq(1..j), 1, db0, {}, << >>)
       IN /\ ledger = r.db.ledger
          /\ schema = r.db.schema
          /\ clock = r.db.clock
    /\ hist = << >>
    /\ procs = [ p \in Racers |-> Idle ]

Step(p, new) ==
  /\ procs' = [ procs EXCEPT ![p] = new ]
  /\ UNCHANGED << catalog, hist >>

ReadPending(p) ==
  /\ procs[p].pc = "idle"
  /\ Step(p, [ procs[p] EXCEPT
                 !.pc = "batch",
                 !.pending = get_pending_migrations(catalog, ledger) ])
  /\ UNCHANGED << ledger, schema, clock >>

AllocateBatch(p) ==
  /\ procs[p].pc = "batch"
  /\ Step(p, [ procs[p] EXCEPT
                 !.pc = IF procs[p].pending = << >> THEN "done" ELSE "forward",
                 !.batch = next_batch(ledger) ])
  /\ UNCHANGED << ledger, schema, clock >>

\* Faulty variant: the forward statements take effect as they run, outside
\* the unit's transaction.
Forward_Autocommit(p) ==
  /\ procs[p].pc = "forward"
  /\ \E refused \in BOOLEAN :
       /\ Step(p, IF refused
                  THEN [ procs[p] EXCEPT !.pc = "done", !.err = "DatabaseError",
                                         !.failed = Head(procs[p].pending) ]
                  ELSE [ procs[p] EXCEPT !.pc = "record" ])
       /\ schema' = IF refused THEN schema
                    ELSE [ schema EXCEPT ![Head(procs[p].pending)] = @ + 1 ]
  /\ UNCHANGED << ledger, clock >>

\* The unit's transaction opens and its forward statements run; a refused
\* statement rolls the transaction back and ends the invocation.
Forward(p) ==
  /\ procs[p].pc = "forward"
  /\ \E refused \in BOOLEAN :
       Step(p, IF refused
               THEN [ procs[p] EXCEPT !.pc = "done", !.err = "DatabaseError",
                                      !.failed = Head(procs[p].pending) ]
               ELSE [ procs[p] EXCEPT !.pc = "record" ])
  /\ UNCHANGED << ledger, schema, clock >>

RecordApplied(p) ==
  /\ procs[p].pc = "record"
  /\ LET id == Head(procs[p].pending)
         ins == record_applied(ledger, id, procs[p].batch, clock + 1)
     IN /\ \A q \in Racers \ {p} :
             \A i \in 1..Len(procs[q].staged) :
               procs[q].staged[i].migration_id # id
        /\ Step(p, IF ins.ok
                   THEN [ procs[p] EXCEPT
                            !.pc = "commit",
                            !.inserted = @ \cup {id},
                            !.staged = << ins.ledger[Len(ins.ledger)] >> ]
                   ELSE [ procs[p] EXCEPT
                            !.pc = "done",
                            !.inserted = @ \cup {id},
                            !.err = "ConflictError",
                            !.failed = id ])
  /\ clock' = clock + 1
  /\ UNCHANGED << ledger, schema >>

Commit(p) ==
  /\ procs[p].pc = "commit"
  /\ LET row == procs[p].staged[1]
         rest == Tail(procs[p].pending)
     IN /\ ledger' = Append(ledger, row)
        /\ schema' = [ schema EXCEPT ![row.migration_id] = @ + 1 ]
        /\ Step(p, [ procs[p] EXCEPT
                       !.pc = IF rest = << >> THEN "done" ELSE "forward",
                       !.pending = rest,
                       !.staged = << >>,
                       !.committed = @ \cup { row.migration_id } ])
  /\ UNCHANGED clock

NextRace ==
  \E p \in Racers :
    \/ ReadPending(p)
    \/ AllocateBatch(p)
    \/ Forward(p)
    \/ RecordApplied(p)
    \/ Commit(p)

SpecRace == InitRace /\ [][NextRace]_vars

(***************************************************************************)
(* The same invocations, each of which may be cut short at any point of a  *)
(* unit's transaction: a caller-level timeout, or the operator's process   *)
(* ending.  The database aborts the open transaction: what it staged is    *)
(* dropped and the invocation does nothing more.                           *)
(***************************************************************************)
Abort(p) ==
  /\ procs[p].pc \in { "forward", "record", "commit" }
  /\ Step(p, [ procs[p] EXCEPT !.pc = "done", !.staged = << >>,
                               !.err = "Aborted",
                               !.failed = Head(procs[p].pending) ])
  /\ UNCHANGED << ledger, schema, clock >>

NextAbort ==
  \E p \in Racers :
    \/ ReadPending(p)
    \/ AllocateBatch(p)
    \/ Forward(p)
    \/ RecordApplied(p)
    \/ Commit(p)
    \/ Abort(p)

SpecAbort == InitRace /\ [][NextAbort]_vars

(***************************************************************************)
(* Vocabulary of the properties                                            *)
(***************************************************************************)
Last == hist[Len(hist)]

Ended(cmd) == hist # << >> /\ Last.cmd = cmd

Pair(c1, c2) == Len(hist) = 2 /\ hist[1].cmd = c1 /\ hist[2].cmd = c2

AttemptedIds(e) == [ i \in 1..Len(e.attempted) |-> e.attempted[i].id ]

Committed(e) ==
  { e.attempted[i].id :
      i \in { j \in 1..Len(e.attempted) : e.attempted[j].outcome = "committed" } }

IdBatch(led) == { << r.migration_id, r.batch >> : r \in Rows(led) }

Batches(led) == { r.batch : r \in Rows(led) }

TopBatch(led) == { r \in Rows(led) : \A q \in Rows(led) : q.batch <= r.batch }

FreshBatch(led) ==
  IF led = << >> THEN 1
  ELSE (CHOOSE r \in TopBatch(led) : TRUE).batch + 1

AppliedAt(led, id) == (CHOOSE r \in Rows(led) : r.migration_id = id).applied_at

PendingOf(cat, led) == SortedSeq(cat \ { r.migration_id : r \in Rows(led) })

IsPrefix(s, t) == Len(s) <= Len(t) /\ SubSeq(t, 1, Len(s)) = s

\* ids lists, latest applied first and without a gap, rows of the set rows.
ReversePrefix(ids, rows) ==
  /\ \A i, j \in 1..Len(ids) : i # j => ids[i] # ids[j]
  /\ \A i \in 1..Len(ids) :
       /\ \E r \in rows : r.migration_id = ids[i]
       /\ \A r \in rows :
            (\A j \in 1..i : ids[j] # r.migration_id) =>
              \A q \in rows : q.migration_id = ids[i] =>
                r.applied_at < q.applied_at

AllOutcomes(e, dir, n, lastOutcome) ==
  /\ Len(e.attempted) = n
  /\ \A i \in 1..n :
       /\ e.attempted[i].dir = dir
       /\ e.attempted[i].outcome = IF i < n THEN "committed" ELSE lastOutcome

(***************************************************************************)
(* C1.  Idempotence of up: when up has completed successfully and is       *)
(* invoked again with no unit added in between, the second invocation      *)
(* attempts no forward statement and leaves the ledger as it was.          *)
(***************************************************************************)
C1_UpIdempotent ==
  (Pair("up", "up") /\ hist[1].exit = 0) =>
    /\ hist[2].attempted = << >>
    /\ hist[2].after = hist[2].before
    /\ hist[2].exit = 0

C1_Witness ==
  /\ Pair("up", "up")
  /\ hist[1].exit = 0
  /\ Len(hist[1].attempted) >= 2
  /\ hist[2].after = hist[2].before

(***************************************************************************)
(* C2.  Resume after a partial failure: when an up committed A and then    *)
(* failed on B, the next up attempts B first and then the pending units    *)
(* after B in chronological order, and never A again.                      *)
(***************************************************************************)
C2_ResumeAfterFailure ==
  (Pair("up", "up") /\ hist[1].err = "DatabaseError") =>
    LET B == hist[1].failed
        expected ==
          SelectSeq(SortedSeq(hist[2].catBefore),
                    LAMBDA u : u >= B /\ u \notin applied_ids(hist[1].before))
        ids == AttemptedIds(hist[2])
    IN /\ Len(ids) >= 1
       /\ IsPrefix(ids, expected)
       /\ hist[2].exit = 0 => ids = expected
       /\ \A i \in 1..Len(ids) : hist[2].attempted[i].dir = "up"
       /\ Range(ids) \cap Committed(hist[1]) = {}

C2_Witness ==
  /\ Pair("up", "up")
  /\ hist[1].err = "DatabaseError"
  /\ hist[1].failed = 2
  /\ Committed(hist[1]) = {1}
  /\ hist[2].exit = 0
  /\ AttemptedIds(hist[2]) = << 2, 3 >>

ScenarioCatalog ==
  { unit_id("m_001_create_users"), unit_id("m_002_add_email") }

ScenarioUp(e) ==
  /\ e.cmd = "up"
  /\ e.exit = 0
  /\ e.catBefore = ScenarioCatalog
  /\ e.before = << >>

\* The ledger the scenario's up leaves behind.
ScenarioApplied(cat, led) ==
  /\ cat = ScenarioCatalog
  /\ IdBatch(led) = { << u, 1 >> : u \in ScenarioCatalog }

\* C4, first step: the scenario's up records both units in batch 1.
C4_UpRecordsBoth ==
  (hist # << >> /\ ScenarioUp(Last)) => ScenarioApplied(Last.catAfter, Last.after)

C5_RoundTrip ==
  /\ (Ended("up") /\ Last.exit = 0) =>
       PendingOf(Last.catAfter, Last.after) = << >>
  /\ (Pair("down", "up") /\ hist[1].exit = 0 /\ hist[2].exit = 0
        /\ PendingOf(hist[1].catBefore, hist[1].before) = << >>) =>
       /\ applied_ids(hist[2].after) = applied_ids(hist[1].before)
       /\ Cardinality(Batches(hist[2].after)) = Cardinality(Batches(hist[1].before))

C5_Witness ==
  /\ Pair("down", "up")
  /\ hist[1].exit = 0
  /\ hist[2].exit = 0
  /\ PendingOf(hist[1].catBefore, hist[1].before) = << >>
  /\ Cardinality(Batches(hist[1].before)) = 2
  /\ Len(hist[2].attempted) >= 1
  /\ IdBatch(hist[2].after) = IdBatch(hist[1].before)

(***************************************************************************)
(* C6.  Exactly once: the ledger never holds two records for one           *)
(* migration id, no invocation attempts the forward of a unit that is      *)
(* already applied, and asking for an applied unit to be applied is a      *)
(* no-op that raises no error.                                             *)
(***************************************************************************)
C6_ExactlyOnce ==
  /\ \A id \in Units :
       Cardinality({ i \in 1..Len(ledger) : ledger[i].migration_id = id }) <= 1
  /\ hist # << >> =>
       \A i \in 1..Len(Last.attempted) :
         Last.attempted[i].dir = "up" =>
           Last.attempted[i].id \notin applied_ids(Last.before)
  /\ (Ended("run_specific_migration") /\ Last.args[2] = "up"
        /\ unit_id(Last.args[1]) \in applied_ids(Last.before)) =>
       /\ Last.err = "none"
       /\ Last.attempted = << >>
       /\ Last.after = Last.before

C6_Witness ==
  /\ Ended("run_specific_migration")
  /\ Last.args[2] = "up"
  /\ unit_id(Last.args[1]) \in applied_ids(Last.before)
  /\ Len(ledger) >= 2

(***************************************************************************)
(* C7.  down on an empty ledger attempts no reverse statement, leaves the  *)
(* ledger empty, reports "nothing to roll back" and exits with code 0.     *)
(***************************************************************************)
C7_DownOnEmpty ==
  (Ended("down") /\ Last.before = << >>) =>
    /\ Last.attempted = << >>
    /\ Last.after = << >>
    /\ Last.report = "nothing to roll back"
    /\ Last.err = "none"
    /\ Last.exit = 0

C7_Witness ==
  /\ Pair("down", "down")
  /\ hist[1].before # << >>
  /\ hist[2].before = << >>
  /\ hist[2].exit = 0

(***************************************************************************)
(* C8.  Failure during up: when the forward of the k-th pending unit       *)
(* fails, the ledger afterwards is the ledger before plus the k-1 pending  *)
(* units before it, all in this invocation's batch; nothing is attempted   *)
(* after the failure, and the failing unit is reported.                    *)
(***************************************************************************)
C8_UpFailure ==
  (Ended("up") /\ Last.err = "DatabaseError") =>
    LET pend == PendingOf(Last.catBefore, Last.before)
        k == Len(Last.attempted)
        batch == FreshBatch(Last.before)
    IN /\ k >= 1
       /\ k <= Len(pend)
       /\ AttemptedIds(Last) = SubSeq(pend, 1, k)
       /\ AllOutcomes(Last, "up", k, "failed")
       /\ Last.failed = pend[k]
       /\ Last.exit # 0
       /\ Len(Last.after) = Len(Last.before) + k - 1
       /\ SubSeq(Last.after, 1, Len(Last.before)) = Last.before
       /\ IdBatch(Last.after) \ IdBatch(Last.before)
            = { << pend[i], batch >> : i \in 1..(k - 1) }

C8_Witness ==
  /\ Ended("up")
  /\ Last.err = "DatabaseError"
  /\ Last.before # << >>
  /\ Len(Last.attempted) = 2
  /\ Len(PendingOf(Last.catAfter, Last.after)) = 1

(***************************************************************************)
(* C9.  Failure during down: the units reversed before the failure stay    *)
(* removed, the failing unit and those after it in reverse-application     *)
(* order stay recorded with their batch, and the next down resumes with    *)
(* exactly those.                                                          *)
(***************************************************************************)
C9_DownFailure ==
  /\ (Ended("down") /\ Last.err = "DatabaseError") =>
       LET k == Len(Last.attempted)
           ids == AttemptedIds(Last)
       IN /\ k >= 1
          /\ ReversePrefix(ids, TopBatch(Last.before))
          /\ AllOutcomes(Last, "down", k, "failed")
          /\ Last.failed = ids[k]
          /\ Last.exit # 0
          /\ Last.after =
               SelectSeq(Last.before,
                         LAMBDA r : r.migration_id \notin Committed(Last))
  /\ (Pair("down", "down") /\ hist[1].err = "DatabaseError") =>
       LET remaining ==
             { r \in TopBatch(hist[1].before) :
                 r.migration_id \notin Committed(hist[1]) }
           ids == AttemptedIds(hist[2])
       IN /\ Len(ids) >= 1
          /\ ids[1] = hist[1].failed
          /\ ReversePrefix(ids, remaining)
          /\ hist[2].exit = 0 =>
               /\ Range(ids) = { r.migration_id : r \in remaining }
               /\ hist[2].after =
                    SelectSeq(hist[1].before,
                              LAMBDA r : r \notin TopBatch(hist[1].before))

C9_Witness ==
  /\ Pair("down", "down")
  /\ hist[1].err = "DatabaseError"
  /\ AttemptedIds(hist[1]) = << 3, 2 >>
  /\ hist[2].exit = 0
  /\ AttemptedIds(hist[2]) = << 2, 1 >>

(***************************************************************************)
(* C10.  Racing invocations: a unit's forward effect is committed at most  *)
(* once and always together with its one ledger record; when one           *)
(* invocation has committed a unit, the other invocation's insert for      *)
(* that unit is refused with ConflictError, its transaction is rolled      *)
(* back and it commits nothing for the unit.                               *)
(***************************************************************************)
C10_RacingUp ==
  /\ \A u \in Units :
       /\ Cardinality({ p \in Racers : u \in procs[p].committed }) <= 1
       /\ schema[u] = Cardinality({ i \in 1..Len(ledger) : ledger[i].migration_id = u })
       /\ schema[u] <= 1
  /\ \A p, q \in Racers : \A u \in Units :
       (p # q /\ u \in procs[p].committed /\ u \in procs[q].inserted) =>
         /\ procs[q].err = "ConflictError"
         /\ procs[q].failed = u
         /\ procs[q].pc = "done"
         /\ procs[q].staged = << >>
         /\ u \notin procs[q].committed

C10_Witness ==
  \E p, q \in Racers :
    /\ p # q
    /\ 2 \in procs[p].committed
    /\ 1 \in procs[q].committed
    /\ procs[q].err = "ConflictError"
    /\ procs[q].failed = 2
    /\ procs[p].pc = "done"
    /\ procs[p].err = "none"

(***************************************************************************)
(* C11.  Explicit run misuse: running a unit that is not in the catalog    *)
(* fails with NotFoundError, and running down a unit of the catalog that   *)
(* has no ledger record fails with NotAppliedError; either way no forward  *)
(* or reverse statement is executed and the ledger is left as it was.      *)
(***************************************************************************)
C11_RunMisuse ==
  Ended("run_specific_migration") =>
    LET id == unit_id(Last.args[1])
        Refused(err) ==
          /\ Last.err = err
          /\ Last.failed = id
          /\ Last.exit # 0
          /\ Last.attempted = << >>
          /\ Last.after = Last.before
    IN /\ id \notin Last.catBefore => Refused("NotFoundError")
       /\ (id \in Last.catBefore /\ Last.args[2] = "down"
             /\ id \notin applied_ids(Last.before)) =>
            Refused("NotAppliedError")

C11_Witness ==
  /\ Pair("run_specific_migration", "run_specific_migration")
  /\ hist[1].err = "NotFoundError"
  /\ hist[2].err = "NotAppliedError"
  /\ hist[2].before # << >>
  /\ ledger = hist[2].before

(***************************************************************************)
(* C12.  Each of the commands up, down, status and run <id> <up|down>      *)
(* calls exactly one manager operation, its own; run with a valid action   *)
(* has the named unit's forward or reverse executed through the runner     *)
(* and the ledger gains or loses that unit's record.                       *)
(***************************************************************************)
CallOps(e) == [ i \in 1..Len(e.calls) |-> e.calls[i].op ]

C12_OneOperationEach ==
  /\ Ended("up") => CallOps(Last) = << "run_migrations" >>
  /\ Ended("down") => CallOps(Last) = << "rollback_migrations" >>
  /\ Ended("status") => CallOps(Last) = << "get_status" >>
  /\ (Ended("run") /\ Len(Last.args) >= 2 /\ Last.args[2] \in { "up", "down" }) =>
       LET id == unit_id(Last.args[1])
           was == applied_ids(Last.before)
       IN /\ CallOps(Last) = << "run_specific_migration" >>
          /\ Last.calls[1].name = Last.args[1]
          /\ Last.calls[1].list = << Last.args[2] >>
          /\ (Last.args[2] = "up" /\ id \in Last.catBefore /\ id \notin was
                /\ Last.exit = 0) =>
               /\ applied_ids(Last.after) = was \cup {id}
               /\ AttemptedIds(Last) = << id >>
          /\ (Last.args[2] = "down" /\ id \in was /\ Last.exit = 0) =>
               /\ applied_ids(Last.after) = was \ {id}
               /\ AttemptedIds(Last) = << id >>

(***************************************************************************)
(* C13.  Exit status: main exits with code 0 when the operation it called  *)
(* succeeded, and with a non-zero code whenever an error was reported to   *)
(* the operator: arguments missing or invalid, an unknown command, or a    *)
(* failure raised or reported by the manager operation, sync and           *)
(* from-model included.                                                    *)
(***************************************************************************)
ErrorLines ==
  { "Missing migration name for 'create' command.",
    "Missing arguments for 'alter' command.",
    "Missing arguments for 'run' command.",
    "Invalid action! Use 'up' or 'down'.",
    "Missing models path for 'from-model' command.",
    "Unknown command",
    "ORM model generation is disabled.",
    "Error syncing ORM models",
    "No migrations were generated." }

ErrorReported(e) == e.err # "none" \/ e.report \in ErrorLines

C13_ExitStatus ==
  hist # << >> =>
    /\ (Last.calls # << >> /\ ~ErrorReported(Last)) => Last.exit = 0
    /\ ErrorReported(Last) => Last.exit # 0

\* Every error main itself reports, and every exception a manager call
\* raises, ends in a non-zero exit code.
C13_RaisedOrUsage ==
  hist # << >> =>
    ((Last.err # "none" \/ (Last.calls = << >> /\ Last.report \in ErrorLines))
       => Last.exit # 0)

(***************************************************************************)
(* C14.  status is a pure read: it returns one entry per unit of the       *)
(* catalog, in catalog order; a unit with a ledger record is Applied with  *)
(* that record's batch, every other unit is Pending with no batch; the     *)
(* catalog, the ledger and the schema are left as they were.               *)
(***************************************************************************)
C14_StatusPureRead ==
  Ended("status") =>
    LET all == SortedSeq(Last.catBefore) IN
    /\ Len(Last.rows) = Len(all)
    /\ \A i \in 1..Len(all) :
         LET row == Last.rows[i]
             recs == { r \in Rows(Last.before) : r.migration_id = all[i] }
         IN /\ row.id = all[i]
            /\ recs # {} =>
                 /\ row.state = "Applied"
                 /\ \A r \in recs : row.batch = r.batch
            /\ recs = {} =>
                 /\ row.state = "Pending"
                 /\ row.batch = NoBatch
    /\ Last.after = Last.before
    /\ ledger = Last.before
    /\ ~Last.schemaChanged
    /\ Last.catAfter = Last.catBefore
    /\ Last.attempted = << >>
    /\ Last.exit = 0

C14_Witness ==
  /\ Ended("status")
  /\ Last.rows = << [ id |-> 1, state |-> "Applied", batch |-> 1 ],
                    [ id |-> 2, state |-> "Applied", batch |-> 2 ],
                    [ id |-> 3, state |-> "Pending", batch |-> NoBatch ] >>

(***************************************************************************)
(* C15.  Pending computation: whatever the catalog, the applied set and    *)
(* the order in which the file system lists the folder,                    *)
(* get_pending_migrations returns exactly the catalog units whose id is    *)
(* not applied, each once, in strictly increasing id order.                *)
(***************************************************************************)
C15_Pending ==
  Ended("get_pending_migrations") =>
    LET result == Last.result
        applied == get_applied_migrations(ledger)
    IN /\ Range(result) = { m \in Range(Last.files) : m \notin applied }
       /\ \A i, j \in 1..Len(result) : i < j => result[i] < result[j]

C15_Witness ==
  /\ Ended("get_pending_migrations")
  /\ Last.files = << 3, 1, 2 >>
  /\ applied_ids(ledger) = {2}
  /\ Last.result = << 1, 3 >>

(***************************************************************************)
(* C16.  Ledger/schema consistency: in every state, also after a unit's    *)
(* transaction was aborted by a refused statement, a timeout or the end of *)
(* the process, a unit has a ledger record if and only if its forward      *)
(* effect is in the schema.                                                *)
(***************************************************************************)
C16_LedgerSchemaConsistent ==
  \A u \in Units : u \in applied_ids(ledger) <=> schema[u] > 0

C16_Witness ==
  \E p \in Racers :
    /\ procs[p].err = "Aborted"
    /\ procs[p].failed = 2
    /\ 1 \in procs[p].committed
    /\ 2 \in procs[p].inserted
    /\ applied_ids(ledger) = {1}
    /\ schema[1] = 1
    /\ schema[2] = 0

(***************************************************************************)
(* C17.  Batch allocation: the records one up adds all carry the highest   *)
(* batch of the ledger it started from plus one (1 for an empty ledger);   *)
(* an explicit run up records its unit with that same number; an explicit  *)
(* run down removes its unit's record and leaves every other record, batch *)
(* included, as it was.                                                    *)
(***************************************************************************)
NewRows(e) == { r \in Rows(e.after) : r \notin Rows(e.before) }

C17_BatchAllocation ==
  /\ Ended("up") =>
       /\ \A r \in NewRows(Last) : r.batch = FreshBatch(Last.before)
       /\ { r.migration_id : r \in NewRows(Last) } = Committed(Last)
       /\ IsPrefix(Last.before, Last.after)
  /\ (Ended("run_specific_migration") /\ Last.args[2] = "up") =>
       /\ \A r \in NewRows(Last) :
            /\ r.batch = FreshBatch(Last.before)
            /\ r.migration_id = unit_id(Last.args[1])
       /\ { r.migration_id : r \in NewRows(Last) } = Committed(Last)
       /\ IsPrefix(Last.before, Last.after)
  /\ (Ended("run_specific_migration") /\ Last.args[2] = "down") =>
       Last.after =
         SelectSeq(Last.before,
                   LAMBDA r : ~(r.migration_id = unit_id(Last.args[1])
                                  /\ Last.exit = 0))

C17_Witness ==
  /\ Pair("run_specific_migration", "up")
  /\ hist[1].before = << >>
  /\ hist[1].exit = 0
  /\ IdBatch(hist[2].before) = { << 1, 1 >> }
  /\ Len(hist[2].attempted) = 2
  /\ IdBatch(ledger) = { << 1, 1 >>, << 2, 2 >>, << 3, 2 >> }

(***************************************************************************)
(* C18.  Batch numbers are monotonically increasing.  As claimed: the      *)
(* batch an applying invocation gives is strictly greater than the batch   *)
(* given by every earlier applying invocation.  As amended: it is strictly *)
(* greater than the batch of every record in the ledger it started from,   *)
(* so batches never decrease along the ledger; once a down has removed the *)
(* highest batch, the next applying invocation gives a number no greater   *)
(* than the one removed.                                                   *)
(***************************************************************************)
\* Every record of a ledger was given its batch by an earlier applying
\* invocation: the batches given before the last invocation include those
\* of the ledgers the last two invocations started from.
GivenEarlier ==
  Batches(Last.before) \cup (IF Len(hist) = 2 THEN Batches(hist[1].before) ELSE {})

C18_Original ==
  hist # << >> =>
    \A r \in NewRows(Last) : \A b \in GivenEarlier : b < r.batch

C18_Amended ==
  /\ hist # << >> =>
       \A r \in NewRows(Last) : \A b \in Batches(Last.before) : b < r.batch
  /\ \A i, j \in 1..Len(ledger) : i < j => ledger[i].batch <= ledger[j].batch
  /\ (Pair("down", "up") /\ hist[1].exit = 0 /\ hist[1].before # << >>) =>
       \A r \in NewRows(Last) : \A q \in TopBatch(hist[1].before) :
         r.batch <= q.batch

C18_Witness ==
  /\ Pair("down", "up")
  /\ hist[1].exit = 0
  /\ IdBatch(hist[1].before) = { << 1, 1 >>, << 2, 2 >> }
  /\ IdBatch(hist[2].before) = { << 1, 1 >> }
  /\ hist[2].exit = 0
  /\ IdBatch(ledger) = { << 1, 1 >>, << 2, 2 >> }

(***************************************************************************)
(* C19.  The alter command's formatting loop: the tokens are consumed left *)
(* to right, each once; an operation keyword the loop arrives at that has  *)
(* a token after it is emitted with that token as "<op> <arg>" and both    *)
(* are consumed, whatever the second one is; any other token, and an       *)
(* operation keyword in last place, is skipped with a warning;             *)
(* create_alter_migration is then called once, with the table name and     *)
(* the formatted list, empty or not.                                       *)
(***************************************************************************)
Paired(ops, p) == p >= 1 /\ p < Len(ops) /\ ops[p] \in Keywords

\* The positions the loop arrives at: the first one, the one after a
\* skipped token, and the one two after an emitted operation.
Visited(ops) ==
  CHOOSE H \in SUBSET (1..Len(ops)) :
    \A p \in 1..Len(ops) :
      p \in H <=> \/ p = 1
                  \/ (p - 1) \in H /\ ~Paired(ops, p - 1)
                  \/ (p - 2) \in H /\ Paired(ops, p - 2)

Emitted(ops) ==
  LET at == SortedSeq({ p \in Visited(ops) : Paired(ops, p) })
  IN [ k \in 1..Len(at) |-> ops[at[k]] \o " " \o ops[at[k] + 1] ]

Warned(ops) ==
  LET at == SortedSeq({ p \in Visited(ops) : ~Paired(ops, p) })
  IN [ k \in 1..Len(at) |->
         IF ops[at[k]] \in Keywords
         THEN "Incomplete operation: " \o ops[at[k]]
         ELSE "Unknown operation: " \o ops[at[k]] ]

C19_AlterPairing ==
  (Ended("alter") /\ Len(Last.args) >= 2) =>
    LET ops == SubSeq(Last.args, 2, Len(Last.args))
        H == Visited(ops)
    IN /\ \A p \in 1..Len(ops) :
            p \in H <=> ~((p - 1) \in H /\ Paired(ops, p - 1))
       /\ Len(Last.calls) = 1
       /\ Last.calls[1].op = "create_alter_migration"
       /\ Last.calls[1].name = Last.args[1]
       /\ Last.calls[1].list = Emitted(ops)
       /\ Last.warnings = Warned(ops)
       /\ 2 * Len(Last.calls[1].list) + Len(Last.warnings) = Len(ops)
       /\ Last.exit = 0

C19_Witness ==
  /\ Ended("alter")
  /\ Last.args = << "users", "add", "drop", "rename" >>
  /\ Last.calls = << Call("create_alter_migration", "users", << "add drop" >>) >>
  /\ Last.warnings = << "Incomplete operation: rename" >>

====
